---- MODULE Spec2Model ----
(***************************************************************************)
(* TruePedia: a Streamlit page over Wikipedia search, cross-language       *)
(* variants, machine translation and collaborative highlights.             *)
(*                                                                         *)
(* src/main.py                  the later variant (with highlighting)      *)
(* src/attached_assets/main.py  the earlier variant (no highlighting)      *)
(*                                                                         *)
(* A Streamlit script is run from top to bottom once per user interaction  *)
(* (a widget change or a button press); st.rerun() aborts the run and      *)
(* starts a new one with no button pressed.  One action of the model is    *)
(* one interaction together with the script run(s) it causes.              *)
(*                                                                         *)
(* Texts are TLA+ strings; \o, Len and SubSeq act on them as Python's +,   *)
(* len and slicing do.                                                     *)
(***************************************************************************)
EXTENDS Integers, Sequences, FiniteSets, TLC

VARIABLES
    session,    \* st.session_state of src/main.py (with its keyed widgets)
    session0,   \* st.session_state of src/attached_assets/main.py
    view,       \* what the last script run of src/main.py rendered
    view0,      \* what the last script run of the earlier variant rendered
    store,      \* the highlight store: highlight records in storage order
    event,      \* the interaction that started the last script run
    keys,       \* SpecKey: two (title, language) pairs and their identifiers
    preview,    \* SpecPreview: a content tab rendered for a long article
    marked,     \* SpecMark: a raw text, highlight records and the marked text
    users       \* SpecStore: the sessions of several users on one store

vars == <<session, session0, view, view0, store, event, keys, preview, marked, users>>

-----------------------------------------------------------------------------
(* Python values *)

\* current_article = None: the article that is no article (falsy).
None == [title |-> "", url |-> "", summary |-> "", content |-> ""]

\* translate_to = None, before any Translate To select box was rendered.
NoLanguage == "None"

Truthy(article) == article # None

-----------------------------------------------------------------------------
(* wiki_utils: the external Wikipedia and translation services.  The same   *)
(* question always gets the same answer.                                    *)

\* list(LANGUAGE_DICT.keys()): the options of the language select boxes; the
\* first one is a select box's value until the user picks another.
LanguageKeys == <<"en", "fr">>

Languages == {LanguageKeys[i] : i \in 1..Len(LanguageKeys)}

\* The search queries a user types ("" is the empty search box).
Queries == {"", "p", "z"}

\* The pages the encyclopedia holds: "Rome" exists in French only, so that
\* loading it in English fails.
Pages ==
    { [title |-> "Paris", lang |-> "en", summary |-> "ab",  content |-> "ab|ba"],
      [title |-> "Paris", lang |-> "fr", summary |-> "ba",  content |-> "bab"],
      [title |-> "Rome",  lang |-> "fr", summary |-> "aab", content |-> "a|b|ab"] }

get_wikipedia_search_results(query, lang) ==
    IF query = "p"
    THEN (IF lang = "en" THEN <<"Paris", "Rome">> ELSE <<"Rome", "Paris">>)
    ELSE <<>>

get_article_content(title, lang) ==
    IF \E p \in Pages : p.title = title /\ p.lang = lang
    THEN LET p == CHOOSE q \in Pages : q.title = title /\ q.lang = lang
         IN  [title |-> p.title, url |-> lang \o "/" \o p.title,
              summary |-> p.summary, content |-> p.content]
    ELSE None

\* A dict language code -> title of the article in that language.
get_available_languages(title, lang) ==
    IF title = "Paris"
    THEN {[code |-> l, title |-> "Paris"] : l \in Languages \ {lang}}
    ELSE {[code |-> l, title |-> "Rome"] : l \in Languages \ {lang}}

get_article_in_language(lang_title, lang_code) ==
    get_article_content(lang_title, lang_code)

\* The translation service: a text in the target language, never the text
\* it was given.
translate_text(text, dest, src) == dest \o ":" \o text

\* The positions of the section separators "|" of a content.
Bars(content) == {i \in 1..Len(content) : SubSeq(content, i, i) = "|"}

\* The sections of a content: the texts between its separators, in order.
split_content_into_sections(content) ==
    LET bars == Bars(content)
        starts == {1} \cup {b + 1 : b \in bars}
        Start(i) == CHOOSE p \in starts : Cardinality({q \in starts : q < p}) = i - 1
        End(p) == CHOOSE e \in bars \cup {Len(content) + 1} :
                      e >= p /\ \A b \in bars : b >= p => e <= b
    IN  [i \in 1..Cardinality(starts) |->
            [title |-> "Section", content |-> SubSeq(content, Start(i), End(Start(i)) - 1)]]

-----------------------------------------------------------------------------
(* highlight_utils: the highlight store and the highlight renderer *)

\* A highlight record: the article identifier, the highlighted fragment and
\* the section it was selected in.
Highlight(article_id, text, section_id) ==
    [article_id |-> article_id, text |-> text, section_id |-> section_id]

\* The records stored for an article, in storage order.
get_highlights(records, article_id) ==
    SelectSeq(records, LAMBDA h : h.article_id = article_id)

\* Saving a highlight: the article's records as loaded from the storage,
\* with one more record ...
save_highlight(loaded, article_id, text, section_id) ==
    Append(loaded, Highlight(article_id, text, section_id))

\* ... written back as the records of the article.
write_highlights(records, article_id, highlights) ==
    SelectSeq(records, LAMBDA h : h.article_id # article_id) \o highlights

MarkOpen == "<mark>"
MarkClose == "</mark>"

Wrapped(fragment) == MarkOpen \o fragment \o MarkClose

\* Where a fragment occurs in a text.
Occurrences(fragment, text) ==
    {i \in 1..(Len(text) - Len(fragment) + 1) :
        SubSeq(text, i, i + Len(fragment) - 1) = fragment}

Occurs(fragment, text) == Occurrences(fragment, text) # {}

\* Python's text.replace(old, new), old not empty: the occurrences of old
\* found from left to right, none overlapping the one before it.
RECURSIVE Replace(_, _, _)
Replace(text, old, new) ==
    LET found == Occurrences(old, text)
    IN  IF found = {} THEN text
        ELSE LET first == CHOOSE i \in found : \A j \in found : i <= j
             IN  SubSeq(text, 1, first - 1) \o new
                 \o Replace(SubSeq(text, first + Len(old), Len(text)), old, new)

\* Search-and-wrap, one record after the other, each on the text the records
\* before it have produced.
RECURSIVE apply_highlights_to_text(_, _)
apply_highlights_to_text(text, highlights) ==
    IF highlights = <<>> THEN text
    ELSE apply_highlights_to_text(
             Replace(text, Head(highlights).text, Wrapped(Head(highlights).text)),
             Tail(highlights))

\* The highlight-creation interface of a text: what a Save Highlight on it
\* would store the user's selection under.
create_highlight_interface(text, article_id, section_id) ==
    [text |-> text, article_id |-> article_id, section_id |-> section_id]

-----------------------------------------------------------------------------
(* src/main.py: the Summary and Full Content tabs *)

\* len(article["content"]) > 3000
PreviewLimit == 3000

SectionId(i) == "section_" \o ToString(i - 1)

\* A slip: the identifier with no separator.
ArticleIdUnseparated(title, current_language) == title \o current_language

\* f"{article['title']}_{st.session_state.current_language}"
ArticleId(title, current_language) == title \o "_" \o current_language

\* with summary_tab: the branch that shows the translated summary.
SummaryTranslated(s, records) ==
    LET article == s.current_article
        translated_summary ==
            translate_text(article.summary, s.translate_to, s.current_language)
        article_id == ArticleId(article.title, s.current_language)
        highlights == get_highlights(records, article_id)
    IN  [ translated   |-> TRUE,
          text         |-> translated_summary,
          translations |-> {<<article.summary, s.translate_to, s.current_language>>},
          read_id      |-> article_id,
          highlights   |-> highlights,
          html         |-> apply_highlights_to_text(translated_summary, highlights),
          interfaces   |-> IF s.highlight_mode
                           THEN {create_highlight_interface(
                                     translated_summary, article_id, "summary")}
                           ELSE {} ]

\* with summary_tab: the branch that shows the summary as fetched.
SummaryOriginal(s, records) ==
    LET article == s.current_article
        article_id == ArticleId(article.title, s.current_language)
        highlights == get_highlights(records, article_id)
    IN  [ translated   |-> FALSE,
          text         |-> article.summary,
          translations |-> {},
          read_id      |-> article_id,
          highlights   |-> highlights,
          html         |-> apply_highlights_to_text(article.summary, highlights),
          interfaces   |-> IF s.highlight_mode
                           THEN {create_highlight_interface(
                                     article.summary, article_id, "summary")}
                           ELSE {} ]

SummaryTranslationRequested(s) ==
    s.show_translation /\ s.translate_to # s.current_language

summary_tab(s, records) ==
    IF SummaryTranslationRequested(s)
    THEN SummaryTranslated(s, records)
    ELSE SummaryOriginal(s, records)

\* A slip: a content of exactly 3000 characters cut as well.
content_preview_from_limit(content) ==
    IF Len(content) >= PreviewLimit
    THEN SubSeq(content, 1, PreviewLimit) \o "..."
    ELSE content

\* article["content"][:3000] + "..." if len(article["content"]) > 3000
\* else article["content"]
content_preview(content) ==
    IF Len(content) > PreviewLimit
    THEN SubSeq(content, 1, PreviewLimit) \o "..."
    ELSE content

\* st.info("Only a portion of the content has been translated ...")
TruncationNotice(content) == Len(content) > PreviewLimit

\* A slip: only the first stored highlight applied to a section.
SectionViewsFirstOnly(sections, highlights) ==
    [i \in 1..Len(sections) |->
        apply_highlights_to_text(sections[i].content, SubSeq(highlights, 1, 1))]

\* The expanders of the sections: the marked text of each, and the
\* highlight-creation interface of each in highlighting mode.
SectionViews(sections, highlights) ==
    [i \in 1..Len(sections) |->
        apply_highlights_to_text(sections[i].content, highlights)]

SectionInterfaces(s, sections, article_id) ==
    IF s.highlight_mode
    THEN {create_highlight_interface(sections[i].content, article_id, SectionId(i))
            : i \in 1..Len(sections)}
    ELSE {}

\* A slip: the translated content keyed by the language it is translated to.
ContentTranslatedByTarget(s, records) ==
    LET article == s.current_article
        preview_text == content_preview(article.content)
        translated_content ==
            translate_text(preview_text, s.translate_to, s.current_language)
        sections == split_content_into_sections(translated_content)
        highlights == get_highlights(records, ArticleId(article.title, s.current_language))
    IN  [ translated   |-> TRUE,
          text         |-> translated_content,
          translations |-> {<<preview_text, s.translate_to, s.current_language>>},
          read_id      |-> ArticleId(article.title, s.current_language),
          highlights   |-> highlights,
          html         |-> SectionViews(sections, highlights),
          interfaces   |-> SectionInterfaces(s, sections,
                               ArticleId(article.title, s.translate_to)),
          notice       |-> TruncationNotice(article.content) ]

\* with content_tab: the branch that shows the translated content.
ContentTranslated(s, records) ==
    LET article == s.current_article
        preview_text == content_preview(article.content)
        translated_content ==
            translate_text(preview_text, s.translate_to, s.current_language)
        article_id == ArticleId(article.title, s.current_language)
        sections == split_content_into_sections(translated_content)
        highlights == get_highlights(records, article_id)
    IN  [ translated   |-> TRUE,
          text         |-> translated_content,
          translations |-> {<<preview_text, s.translate_to, s.current_language>>},
          read_id      |-> article_id,
          highlights   |-> highlights,
          html         |-> SectionViews(sections, highlights),
          interfaces   |-> SectionInterfaces(s, sections, article_id),
          notice       |-> TruncationNotice(article.content) ]

\* with content_tab: the branch that shows the content as fetched.
ContentOriginal(s, records) ==
    LET article == s.current_article
        sections == split_content_into_sections(article.content)
        article_id == ArticleId(article.title, s.current_language)
        highlights == get_highlights(records, article_id)
    IN  [ translated   |-> FALSE,
          text         |-> article.content,
          translations |-> {},
          read_id      |-> article_id,
          highlights   |-> highlights,
          html         |-> SectionViews(sections, highlights),
          interfaces   |-> SectionInterfaces(s, sections, article_id),
          notice       |-> FALSE ]

\* A slip: the content translated whenever a translation was asked for.
ContentTranslationAlways(s) == s.show_translation

ContentTranslationRequested(s) ==
    s.show_translation /\ s.translate_to # s.current_language

content_tab(s, records) ==
    IF ContentTranslationRequested(s)
    THEN ContentTranslated(s, records)
    ELSE ContentOriginal(s, records)

\* The tabs of a pass that rendered no article (the welcome message).
NoTab ==
    [ translated |-> FALSE, text |-> "", translations |-> {}, read_id |-> "",
      highlights |-> <<>>, html |-> <<>>, interfaces |-> {}, notice |-> FALSE ]

Welcome == [shown |-> FALSE, summary |-> NoTab, content |-> NoTab]

\* if st.session_state.current_article: ... else: the welcome message.
MainArea(s, records) ==
    IF Truthy(s.current_article)
    THEN [ shown   |-> TRUE,
           summary |-> summary_tab(s, records) @@ [notice |-> FALSE],
           content |-> content_tab(s, records) ]
    ELSE Welcome

-----------------------------------------------------------------------------
(* src/main.py: one pass of the script over the session state *)

\* What the user did to start a script run.  A run started by st.rerun() has
\* no button pressed.
NoInput ==
    [ search |-> FALSE, query |-> "", search_lang |-> LanguageKeys[1],
      result |-> "", translate |-> FALSE, toggle |-> FALSE,
      view_language |-> FALSE, option |-> [code |-> "", title |-> ""] ]

\* if st.button("Search"): if search_query: ...
SearchHandler(s, in) ==
    IF in.search /\ in.query # ""
    THEN [s EXCEPT
            !.search_results = get_wikipedia_search_results(in.query, in.search_lang),
            !.current_article = None,
            !.available_languages = {},
            !.current_language = in.search_lang,
            !.show_translation = FALSE]
    ELSE s

\* selected_tag = st.text_input("", key="selected_tag"); if selected_tag: ...
\* The text input keeps its value from run to run.
SelectedTagHandler(s) ==
    IF s.selected_tag # ""
    THEN LET article == get_article_content(s.selected_tag, s.current_language)
         IN  IF Truthy(article)
             THEN [ s |-> [s EXCEPT
                             !.current_article = article,
                             !.available_languages =
                                 get_available_languages(s.selected_tag,
                                                         s.current_language),
                             !.show_translation = FALSE,
                             !.selected_tag = ""],
                    rerun |-> TRUE,
                    loads |-> <<s.selected_tag>> ]
             ELSE [ s |-> [s EXCEPT !.current_article = article],
                    rerun |-> FALSE,
                    loads |-> <<s.selected_tag>> ]
    ELSE [s |-> s, rerun |-> FALSE, loads |-> <<>>]

\* st.session_state.translate_to = st.selectbox("Translate To", ...)
\* if st.button("Translate Article"): show_translation = True
TranslationSettings(s, in) ==
    IF Truthy(s.current_article)
    THEN [s EXCEPT !.translate_to = s.translate_lang,
                   !.show_translation = (in.translate \/ @)]
    ELSE s

\* highlight_toggle = st.toggle(..., value=highlight_mode); a toggle the
\* user flipped differs from highlight_mode.
HighlightingControls(s, in) ==
    IF Truthy(s.current_article) /\ in.toggle
    THEN [s |-> [s EXCEPT !.highlight_mode = ~@], rerun |-> TRUE]
    ELSE [s |-> s, rerun |-> FALSE]

\* if st.button("View in Selected Language"): ...; st.rerun()
ViewInSelectedLanguage(s, in) ==
    IF Truthy(s.current_article) /\ in.view_language
    THEN [ s |-> [s EXCEPT
                    !.current_article =
                        get_article_in_language(in.option.title, in.option.code),
                    !.current_language = in.option.code,
                    !.show_translation = FALSE],
           rerun |-> TRUE ]
    ELSE [s |-> s, rerun |-> FALSE]

\* Streamlit drops the value of a keyed widget that a completed run did not
\* render; the widget starts from its default when it is rendered again.
WidgetsKept(s, tag_rendered, translate_rendered) ==
    [s EXCEPT !.selected_tag = IF tag_rendered THEN @ ELSE "",
              !.translate_lang = IF translate_rendered THEN @ ELSE LanguageKeys[1]]

\* A pass that st.rerun() ends: the main area is not reached.
Rerun(s, loads) ==
    [s |-> s, rerun |-> TRUE, loads |-> loads, view |-> Welcome]

\* The end of the script: the main area is rendered and the run completes.
MainAreaReached(s, loads, tag_rendered, translate_rendered, records) ==
    [ s     |-> WidgetsKept(s, tag_rendered, translate_rendered),
      rerun |-> FALSE,
      loads |-> loads,
      view  |-> MainArea(s, records) ]

\* The script after the View in Selected Language button ran as v.
AfterViewInSelectedLanguage(v, loads, tag_rendered, translate_rendered, records) ==
    IF v.rerun THEN Rerun(v.s, loads)
    ELSE MainAreaReached(v.s, loads, tag_rendered, translate_rendered, records)

\* The script after the highlighting controls ran as h.
AfterHighlightingControls(h, loads, tag_rendered, translate_rendered, in, records) ==
    IF h.rerun THEN Rerun(h.s, loads)
    ELSE AfterViewInSelectedLanguage(ViewInSelectedLanguage(h.s, in), loads,
                                     tag_rendered, translate_rendered, records)

\* The script after the selected_tag input ran as t.
AfterSelectedTag(t, tag_rendered, in, records) ==
    IF t.rerun THEN Rerun(t.s, t.loads)
    ELSE AfterHighlightingControls(
             HighlightingControls(TranslationSettings(t.s, in), in),
             t.loads, tag_rendered, Truthy(t.s.current_article), in, records)

\* The script after the Search button ran, leaving s1: the selected_tag
\* input is rendered only under search results.
AfterSearch(s1, in, records) ==
    IF s1.search_results # <<>>
    THEN AfterSelectedTag(SelectedTagHandler(s1), TRUE, in, records)
    ELSE AfterSelectedTag([s |-> s1, rerun |-> FALSE, loads |-> <<>>], FALSE,
                          in, records)

\* One pass of the script, from the top to st.rerun() or to the end.
Pass(s0, in, records) ==
    AfterSearch(SearchHandler(s0, in), in, records)

\* The loads of a pass put before those of the passes that followed it.
LoadsFirst(loads, q) ==
    [s |-> q.s, loads |-> loads \o q.loads, view |-> q.view]

\* The script runs an interaction causes: the pass it starts and the passes
\* st.rerun() starts, until one reaches the end of the script.
RECURSIVE ScriptRun(_, _, _)
RECURSIVE AfterPass(_, _)
AfterPass(p, records) ==
    IF p.rerun
    THEN LoadsFirst(p.loads, ScriptRun(p.s, NoInput, records))
    ELSE [s |-> p.s, loads |-> p.loads, view |-> p.view]

ScriptRun(s, in, records) ==
    AfterPass(Pass(s, in, records), records)

-----------------------------------------------------------------------------
(* src/attached_assets/main.py: one pass of the earlier script *)

\* for idx, result in enumerate(search_results): if st.button(result): ...
ResultButtons(s, in) ==
    IF in.result # "" /\ \E i \in 1..Len(s.search_results) : s.search_results[i] = in.result
    THEN LET article == get_article_content(in.result, s.current_language)
         IN  IF Truthy(article)
             THEN [s EXCEPT
                     !.current_article = article,
                     !.available_languages =
                         get_available_languages(in.result, s.current_language),
                     !.show_translation = FALSE]
             ELSE [s EXCEPT !.current_article = article]
    ELSE s

WidgetsKept0(s, translate_rendered) ==
    [s EXCEPT !.translate_lang = IF translate_rendered THEN @ ELSE LanguageKeys[1]]

Welcome0 == [shown |-> FALSE, summary |-> "", content |-> "", notice |-> FALSE]

\* The tabs of the earlier variant: the texts, with no highlights.
MainArea0(s) ==
    IF Truthy(s.current_article)
    THEN LET translating == s.show_translation /\ s.translate_to # s.current_language
             article == s.current_article
         IN  [ shown   |-> TRUE,
               summary |-> IF translating
                           THEN translate_text(article.summary, s.translate_to,
                                               s.current_language)
                           ELSE article.summary,
               content |-> IF translating
                           THEN translate_text(content_preview(article.content),
                                               s.translate_to, s.current_language)
                           ELSE article.content,
               notice  |-> translating /\ TruncationNotice(article.content) ]
    ELSE Welcome0

\* The earlier script after its View in Selected Language button ran as v.
AfterViewInSelectedLanguage0(v, translate_rendered) ==
    IF v.rerun THEN [s |-> v.s, rerun |-> TRUE, view |-> Welcome0]
    ELSE [ s     |-> WidgetsKept0(v.s, translate_rendered),
           rerun |-> FALSE,
           view  |-> MainArea0(v.s) ]

\* The earlier script after its result buttons ran, leaving s2.
AfterResultButtons(s2, in) ==
    AfterViewInSelectedLanguage0(
        ViewInSelectedLanguage(TranslationSettings(s2, in), in),
        Truthy(s2.current_article))

Pass0(s0, in) ==
    AfterResultButtons(ResultButtons(SearchHandler(s0, in), in), in)

RECURSIVE ScriptRun0(_, _)
RECURSIVE AfterPass0(_)
AfterPass0(p) ==
    IF p.rerun THEN ScriptRun0(p.s, NoInput) ELSE [s |-> p.s, view |-> p.view]

ScriptRun0(s, in) ==
    AfterPass0(Pass0(s, in))

-----------------------------------------------------------------------------
(* The page in use: one user, both variants given the same interactions *)

\* Session state initialization (both variants).
InitSession0 ==
    [ search_results      |-> <<>>,
      current_article     |-> None,
      available_languages |-> {},
      current_language    |-> "en",
      translate_to        |-> NoLanguage,
      show_translation    |-> FALSE,
      translate_lang      |-> LanguageKeys[1] ]

InitSession ==
    InitSession0 @@ [highlight_mode |-> FALSE, selected_tag |-> ""]

NoEvent == [kind |-> "Open", query |-> "", lang |-> "", result |-> "", loads |-> <<>>]

\* The values of the variables a specification does not use.
Unused == <<>>

Idle ==
    /\ keys = Unused
    /\ preview = Unused
    /\ marked = Unused
    /\ users = Unused

PageClosed ==
    /\ session = InitSession
    /\ session0 = InitSession0
    /\ view = Welcome
    /\ view0 = Welcome0
    /\ event = NoEvent

\* The highlights other users have stored before the page is opened.
InitialStores ==
    { <<>>,
      <<Highlight(ArticleId("Paris", "en"), "a", "summary")>>,
      <<Highlight(ArticleId("Rome", "fr"), "ab", "section_2"),
        Highlight(ArticleId("Paris", "fr"), "fr", "summary")>> }

Init ==
    /\ PageClosed
    /\ store \in InitialStores
    /\ Idle

\* The page after the scripts ran as r and r0; the stored highlights are
\* left alone.
Shown(r, r0, in, kind) ==
    /\ session' = r.s
    /\ view' = r.view
    /\ session0' = r0.s
    /\ view0' = r0.view
    /\ event' = [kind |-> kind, query |-> in.query, lang |-> in.search_lang,
                 result |-> in.result, loads |-> r.loads]
    /\ UNCHANGED <<store, keys, preview, marked, users>>

\* Both variants run their script on the same interaction.
Interact(s, s0, in, records, kind) ==
    Shown(ScriptRun(s, in, records), ScriptRun0(s0, in), in, kind)

\* The user picks a search language, types a query and presses Search.
Search ==
    \E query \in Queries, lang \in Languages :
        /\ Interact(session, session0,
                    [NoInput EXCEPT !.search = TRUE, !.query = query,
                                    !.search_lang = lang],
                    store, "Search")

\* The user selects a search result: the later variant receives it in the
\* selected_tag text input, the earlier one as the press of its button.
Select ==
    \E i \in 1..Len(session.search_results) :
        LET result == session.search_results[i]
        IN  Interact([session EXCEPT !.selected_tag = result], session0,
                     [NoInput EXCEPT !.result = result], store, "Select")

\* The user picks a language in the Translate To select box.
ChooseTranslateTo ==
    \E lang \in Languages :
        /\ Truthy(session.current_article)
        /\ Interact([session EXCEPT !.translate_lang = lang],
                    IF Truthy(session0.current_article)
                    THEN [session0 EXCEPT !.translate_lang = lang]
                    ELSE session0,
                    NoInput, store, "ChooseTranslateTo")

\* The user presses Translate Article.
TranslateArticle ==
    /\ Truthy(session.current_article)
    /\ Interact(session, session0, [NoInput EXCEPT !.translate = TRUE],
                store, "Translate")

\* The user flips Enable Highlighting Mode (the earlier variant has none).
ToggleHighlighting ==
    /\ Truthy(session.current_article)
    /\ Interact(session, session0, [NoInput EXCEPT !.toggle = TRUE],
                store, "Toggle")

\* The user picks a language of the article and presses View in Selected
\* Language.
ViewLanguage ==
    \E option \in session.available_languages :
        /\ Truthy(session.current_article)
        /\ Interact(session, session0,
                    [NoInput EXCEPT !.view_language = TRUE, !.option = option],
                    store, "View")

Next ==
    \/ Search
    \/ Select
    \/ ChooseTranslateTo
    \/ TranslateArticle
    \/ ToggleHighlighting
    \/ ViewLanguage

Spec == Init /\ [][Next]_vars


-----------------------------------------------------------------------------
(* Texts of bounded length *)

\* The strings of exactly n characters of an alphabet.
RECURSIVE StringsOfLen(_, _)
StringsOfLen(alphabet, n) ==
    IF n = 0 THEN {""}
    ELSE {c \o w : c \in alphabet, w \in StringsOfLen(alphabet, n - 1)}

\* The non-empty strings of at most n characters.
StringsUpTo(alphabet, n) == UNION {StringsOfLen(alphabet, k) : k \in 1..n}

-----------------------------------------------------------------------------
(* SpecKey: the article identifier as a function of title and language *)

MaxTitleLen == 2
MaxCodeLen == 2

KeyAlphabet == {"a", "_"}

KeyPairs ==
    [ title    : StringsUpTo(KeyAlphabet, MaxTitleLen),
      language : StringsUpTo(KeyAlphabet, MaxCodeLen) ]

InitKey ==
    /\ keys \in [first : KeyPairs, second : KeyPairs, ids : {<<>>}]
    /\ PageClosed
    /\ store = <<>>
    /\ preview = Unused
    /\ marked = Unused
    /\ users = Unused

\* The identifiers of both articles are built, as a render of each would.
BuildArticleIds ==
    /\ keys.ids = <<>>
    /\ keys' = [keys EXCEPT !.ids =
                   << ArticleId(keys.first.title, keys.first.language),
                      ArticleId(keys.second.title, keys.second.language) >>]
    /\ UNCHANGED <<session, session0, view, view0, store, event, preview, marked, users>>

NextKey == BuildArticleIds

SpecKey == InitKey /\ [][NextKey]_vars

-----------------------------------------------------------------------------
(* SpecPreview: the Full Content tab of an article about 3000 characters long *)

PreviewMargin == 3

Doubled(text) == text \o text

\* 4096 characters of text, a section separator every 32.
LongText ==
    Doubled(Doubled(Doubled(Doubled(Doubled(Doubled(Doubled(
        "abcdefghijklmnopqrstuvwxyz01234|")))))))

LongArticles ==
    { [title |-> "Long", url |-> "en/Long", summary |-> "ab",
       content |-> SubSeq(LongText, 1, n)]
        : n \in (PreviewLimit - PreviewMargin)..(PreviewLimit + PreviewMargin) }

InitPreview ==
    /\ preview \in
          [ session : { [InitSession EXCEPT !.current_article = article,
                                            !.current_language = lang,
                                            !.translate_to = target,
                                            !.show_translation = shown,
                                            !.highlight_mode = mode]
                          : article \in LongArticles, lang \in Languages,
                            target \in Languages, shown \in BOOLEAN,
                            mode \in BOOLEAN },
            rendered : {FALSE},
            tab : {NoTab} ]
    /\ PageClosed
    /\ store = <<>>
    /\ keys = Unused
    /\ marked = Unused
    /\ users = Unused

RenderContentTab ==
    /\ ~preview.rendered
    /\ preview' = [preview EXCEPT !.rendered = TRUE,
                                  !.tab = content_tab(preview.session, store)]
    /\ UNCHANGED <<session, session0, view, view0, store, event, keys, marked, users>>

NextPreview == RenderContentTab

SpecPreview == InitPreview /\ [][NextPreview]_vars

-----------------------------------------------------------------------------
(* SpecMark: the highlight renderer on a section's text *)

MaxTextLen == 4
MaxFragmentLen == 2

TextAlphabet == {"a", "b", "<"}

\* The highlight records of an article: one or two stored fragments.
HighlightLists ==
    LET records == {Highlight("Paris_en", f, "summary")
                      : f \in StringsUpTo(TextAlphabet, MaxFragmentLen)}
    IN  {<<h>> : h \in records} \cup {<<h, g>> : h \in records, g \in records}

InitMark ==
    /\ marked \in [ raw : StringsUpTo(TextAlphabet, MaxTextLen),
                    highlights : HighlightLists,
                    html : {""},
                    done : {FALSE} ]
    /\ PageClosed
    /\ store = <<>>
    /\ keys = Unused
    /\ preview = Unused
    /\ users = Unused

\* The expander of a section whose content is the raw text.
RenderSection ==
    /\ ~marked.done
    /\ marked' = [marked EXCEPT
                    !.done = TRUE,
                    !.html = SectionViews(<<[title |-> "Section", content |-> marked.raw]>>,
                                          marked.highlights)[1]]
    /\ UNCHANGED <<session, session0, view, view0, store, event, keys, preview, users>>

NextMark == RenderSection

SpecMark == InitMark /\ [][NextMark]_vars

-----------------------------------------------------------------------------
(* SpecStore: several users' sessions on one highlight store.  Each session  *)
(* runs its script in a thread of its own; nothing coordinates the writers.  *)

NumUsers == 2
MaxHighlights == 2

Users == 1..NumUsers

\* The non-empty pieces of a text a user can select, up to MaxFragmentLen long.
Fragments(text) ==
    {SubSeq(text, i, j) : <<i, j>> \in
        {<<a, b>> \in (1..Len(text)) \X (1..Len(text)) :
            a <= b /\ b - a < MaxFragmentLen}}

\* A user with an article open in highlighting mode, rendered at the store.
Reader(page, records) ==
    LET s == [InitSession EXCEPT
                !.current_article = get_article_content(page.title, page.lang),
                !.current_language = page.lang,
                !.highlight_mode = TRUE]
    IN  [ session |-> s,
          view    |-> MainArea(s, records),
          pc      |-> "idle",
          loaded  |-> <<>>,
          pending |-> Highlight("", "", ""),
          missed  |-> {} ]

InitStore ==
    /\ \E pages \in [Users -> Pages] :
          users = [of |-> [u \in Users |-> Reader(pages[u], <<>>)], saved |-> <<>>]
    /\ store = <<>>
    /\ PageClosed
    /\ keys = Unused
    /\ preview = Unused
    /\ marked = Unused

StoreUnchanged == UNCHANGED <<session, session0, view, view0, event, keys, preview, marked>>

\* A script run of a user's session: the summary tab reads the highlights
\* of its article.  What it misses of the highlights saved so far is noted.
Render(u) ==
    LET v == MainArea(users.of[u].session, store)
        got == v.summary.highlights
    IN  /\ users.of[u].pc = "idle"
        /\ users' = [users EXCEPT
                       !.of[u].view = v,
                       !.of[u].missed =
                           {h \in {users.saved[k] : k \in 1..Len(users.saved)} :
                               /\ h.article_id = v.summary.read_id
                               /\ \A i \in 1..Len(got) : got[i] # h}]
        /\ UNCHANGED store
        /\ StoreUnchanged

\* Save Highlight, first half: the records of the article are loaded.
BeginSave(u) ==
    \E iface \in users.of[u].view.summary.interfaces :
        \E fragment \in Fragments(iface.text) :
            /\ users.of[u].pc = "idle"
            /\ Len(users.saved)
                 + Cardinality({w \in Users : users.of[w].pc = "saving"}) < MaxHighlights
            /\ users' = [users EXCEPT
                           !.of[u].pc = "saving",
                           !.of[u].loaded = get_highlights(store, iface.article_id),
                           !.of[u].pending =
                               Highlight(iface.article_id, fragment, iface.section_id)]
            /\ UNCHANGED store
            /\ StoreUnchanged

\* Save Highlight, second half: the loaded records and the new one are
\* written back.
EndSave(u) ==
    LET h == users.of[u].pending
    IN  /\ users.of[u].pc = "saving"
        /\ store' = write_highlights(store, h.article_id,
                        save_highlight(users.of[u].loaded, h.article_id,
                                       h.text, h.section_id))
        /\ users' = [users EXCEPT !.of[u].pc = "idle",
                                  !.saved = Append(@, h)]
        /\ StoreUnchanged

NextStore ==
    \E u \in Users :
        \/ Render(u)
        \/ BeginSave(u)
        \/ EndSave(u)

SpecStore == InitStore /\ [][NextStore]_vars

-----------------------------------------------------------------------------
(* Properties of the page in use *)

\* The session state both variants have.
Shared(s) ==
    [ search_results      |-> s.search_results,
      current_article     |-> s.current_article,
      available_languages |-> s.available_languages,
      current_language    |-> s.current_language,
      show_translation    |-> s.show_translation ]

TranslationDue == session.show_translation /\ session.translate_to # session.current_language

\* C1: in every render of an article, both tabs read the highlights under,
\* and give every highlight-creation interface, the identifier built from
\* the article title and current_language alone.
C1_OneArticleId ==
    view.shown =>
        LET id == session.current_article.title \o "_" \o session.current_language
        IN  \A tab \in {view.summary, view.content} :
                /\ tab.read_id = id
                /\ \A iface \in tab.interfaces : iface.article_id = id

\* A translated article rendered in highlighting mode, section by section,
\* with a target language other than the article's.
C1_Witness ==
    /\ view.shown
    /\ session.highlight_mode
    /\ view.content.translated
    /\ Cardinality(view.content.interfaces) >= 2
    /\ view.summary.interfaces # {}
    /\ view.content.highlights # <<>>

\* C6: a tab shows translated text, and asks the translator for it, exactly
\* when show_translation is set and translate_to differs from
\* current_language; otherwise it shows the article's own summary and
\* content.  Both tabs make the same choice.
C6_TranslationChoice ==
    view.shown =>
        /\ view.summary.translated = TranslationDue
        /\ view.content.translated = TranslationDue
        /\ TranslationDue =>
              /\ view.summary.translations =
                    {<<session.current_article.summary, session.translate_to,
                       session.current_language>>}
              /\ Cardinality(view.content.translations) = 1
              /\ view.summary.text # session.current_article.summary
        /\ ~TranslationDue =>
              /\ view.summary.translations = {}
              /\ view.content.translations = {}
              /\ view.summary.text = session.current_article.summary
              /\ view.content.text = session.current_article.content

\* Translation was asked for, into the article's own language: nothing is
\* translated.
C6_Witness ==
    /\ view.shown
    /\ session.show_translation
    /\ session.translate_to = session.current_language
    /\ ~view.content.translated

\* C7: a Search with a non-empty query ends with the results of the query,
\* no article, no available languages, the chosen search language and no
\* translation; no article is displayed.
C7_SearchResets ==
    (event.kind = "Search" /\ event.query # "") =>
        /\ session.search_results = get_wikipedia_search_results(event.query, event.lang)
        /\ session.current_article = None
        /\ session.available_languages = {}
        /\ session.current_language = event.lang
        /\ ~session.show_translation
        /\ ~view.shown

\* C8: the run that handles a selection leaves selected_tag empty, and a run
\* started by anything but a selection fetches no article.
C8_TagCleared ==
    /\ event.kind = "Select" => session.selected_tag = ""
    /\ event.kind # "Select" => event.loads = <<>>

\* C9: given the same interactions, both variants hold the same
\* search_results, current_article, available_languages, current_language
\* and show_translation.
C9_SameSharedState == Shared(session) = Shared(session0)


-----------------------------------------------------------------------------
(* Properties of the article identifier *)

NoUnderscore(text) == ~Occurs("_", text)

KeysBuilt == keys # Unused /\ keys.ids # <<>>

-----------------------------------------------------------------------------
(* Properties of the content preview *)

Rendered == preview # Unused /\ preview.rendered

\* The text the content tab handed to the translator.
Handed == CHOOSE call \in preview.tab.translations : TRUE

\* C5: a translated content is handed to the translator whole when it is at
\* most 3000 characters long, and otherwise as its first 3000 characters
\* followed by "..."; the notice is shown exactly when it was cut.
C5_PreviewCut ==
    (Rendered /\ preview.tab.translated) =>
        LET content == preview.session.current_article.content
        IN  /\ Cardinality(preview.tab.translations) = 1
            /\ Len(content) <= PreviewLimit =>
                  /\ Handed[1] = content
                  /\ ~preview.tab.notice
            /\ Len(content) > PreviewLimit =>
                  /\ Len(Handed[1]) = PreviewLimit + 3
                  /\ SubSeq(Handed[1], 1, PreviewLimit) = SubSeq(content, 1, PreviewLimit)
                  /\ SubSeq(Handed[1], PreviewLimit + 1, PreviewLimit + 3) = "..."
                  /\ preview.tab.notice

\* A content of exactly 3000 characters, translated whole with no notice.
C5_Witness ==
    /\ Rendered
    /\ preview.tab.translated
    /\ Len(preview.session.current_article.content) = PreviewLimit
    /\ ~preview.tab.notice
    /\ Len(preview.tab.text) > PreviewLimit

-----------------------------------------------------------------------------
(* Properties of the highlight renderer *)

Marked == marked # Unused /\ marked.done

StoredFragments == {marked.highlights[i].text : i \in 1..Len(marked.highlights)}

\* Two fragments have occurrences in the text that share a character.
Overlapping(f, g, text) ==
    \E i \in Occurrences(f, text), j \in Occurrences(g, text) :
        i <= j + Len(g) - 1 /\ j <= i + Len(f) - 1

\* The stored fragments keep clear of each other and of the markup: no two
\* different ones overlap in the raw text, and where there are several,
\* none holds an angle bracket or is a piece of the markup.
KeptApart ==
    \A f \in StoredFragments, g \in StoredFragments :
        f # g =>
            /\ ~Overlapping(f, g, marked.raw)
            /\ ~Occurs("<", g)
            /\ ~Occurs(">", g)
            /\ ~Occurs(g, MarkOpen)
            /\ ~Occurs(g, MarkClose)

EveryFragmentMarked ==
    \A f \in StoredFragments :
        Occurs(f, marked.raw) => Occurs(Wrapped(f), marked.html)

-----------------------------------------------------------------------------
(* Properties of the shared highlight store *)

\* C3: a render of an article retrieves every highlight saved for it before.
C3_SavedIsRetrieved ==
    users # Unused => \A u \in Users : users.of[u].missed = {}

====
